---- MODULE Spec2Model ----
(***************************************************************************)
(* Lead-scoring pipeline: the table-lineage stages of the data pipeline    *)
(* (load_data_into_db, map_city_tier, map_categorical_vars,                *)
(* interactions_mapping), the two schema checks, the training and          *)
(* inference encode_features, get_models_prediction and                    *)
(* prediction_ratio_check, over a relational store of named tables.        *)
(*                                                                         *)
(* A table is a record [columns, rows]: columns is the set of column       *)
(* names, rows the sequence of rows in table order.  A row is a function   *)
(* from column names to values whose DOMAIN is the set of columns in which *)
(* the row is not null: a null cell (None / NaN / SQL NULL) is a column    *)
(* of the table that is missing from the row's domain.                     *)
(***************************************************************************)
EXTENDS Integers, Sequences, FiniteSets, TLC

VARIABLES
    csv_file,                  \* the CSV file at DATA_DIRECTORY (raw tokens)
    db,                        \* the sqlite store: table name -> table
    call,                      \* the stage that ran last and how it ended
    list_platform,             \* significant_categorical_level.list_platform
    list_medium,               \* significant_categorical_level.list_medium
    list_source,               \* significant_categorical_level.list_source
    df_event_mapping,          \* the CSV at INTERACTION_MAPPING
    raw_data_schema,           \* schema.raw_data_schema
    model_input_schema,        \* schema.model_input_schema
    ONE_HOT_ENCODED_FEATURES,  \* constants.ONE_HOT_ENCODED_FEATURES
    FEATURES_TO_ENCODE,        \* constants.FEATURES_TO_ENCODE
    loaded_model,              \* the model in the registry's Production stage
    prediction_distribution,   \* the lines of prediction_distribution.txt
    clock                      \* datetime.now()

vars == <<csv_file, db, call, list_platform, list_medium, list_source,
          df_event_mapping, raw_data_schema, model_input_schema,
          ONE_HOT_ENCODED_FEATURES, FEATURES_TO_ENCODE, loaded_model,
          prediction_distribution, clock>>

config == <<list_platform, list_medium, list_source, df_event_mapping,
            raw_data_schema, model_input_schema,
            ONE_HOT_ENCODED_FEATURES, FEATURES_TO_ENCODE, loaded_model>>

monitor == <<prediction_distribution, clock>>

---------------------------------------------------------------------------
(* Bounds *)

MaxCsvRows == 2     \* rows of the CSV file
MaxCityRows == 2    \* rows of a loaded_data table found in the store
MaxLevelRows == 2   \* rows of a city_tier_mapped table found in the store
MaxLeadRows == 2    \* rows of a categorical_variables_mapped table found in the store
MaxInputRows == 2   \* rows of a model_input table found in the store
MaxPredRows == 3    \* rows of a predicted_values table found in the store
MaxClock == 2       \* readings of the clock

---------------------------------------------------------------------------
(* Tables and the pandas operations the stages use *)

EmptyTable == [columns |-> {}, rows |-> <<>>]

Table(cols, rs) == [columns |-> cols, rows |-> rs]

RowIdx(t) == 1..Len(t.rows)

IsNull(row, c) == c \notin DOMAIN row

\* all sequences over S of length 0..n
SeqUpTo(S, n) == UNION {[1..k -> S] : k \in 0..n}

\* row with column c set to v
SetCol(row, c, v) ==
    [x \in (DOMAIN row) \cup {c} |-> IF x = c THEN v ELSE row[x]]

\* row without column c (the cell becomes null / the column is gone)
DelCol(row, c) == [x \in (DOMAIN row) \ {c} |-> row[x]]

\* the rows with exactly the columns of D non-null, the value of column c
\* drawn from dom[c]
RECURSIVE RowsWith(_, _)
RowsWith(dom, D) ==
    IF D = {} THEN {<<>>}
    ELSE LET c == CHOOSE x \in D : TRUE
         IN  {SetCol(r, c, v) : r \in RowsWith(dom, D \ {c}), v \in dom[c]}

\* the rows over the columns DOMAIN dom in which only the columns of
\* 'nullable' may be null
RowsOver(dom, nullable) ==
    UNION {RowsWith(dom, D) :
           D \in {X \in SUBSET DOMAIN dom : (DOMAIN dom) \ X \subseteq nullable}}

\* the tables with the columns DOMAIN dom and at most n rows
TablesOver(dom, nullable, n) ==
    {Table(DOMAIN dom, rs) : rs \in SeqUpTo(RowsOver(dom, nullable), n)}

\* Series.fillna(v) on column c
fillna(t, c, v) ==
    Table(t.columns,
          [i \in RowIdx(t) |->
              IF IsNull(t.rows[i], c) THEN SetCol(t.rows[i], c, v)
              ELSE t.rows[i]])

\* DataFrame.drop([c], axis=1)
drop(t, c) ==
    Table(t.columns \ {c}, [i \in RowIdx(t) |-> DelCol(t.rows[i], c)])

\* the record a stage leaves behind: which stage, how it ended ("ok",
\* "returned" for the encoder's early return, "raised"), the exception it
\* raised, the frame it read, the frame it returned, the message it
\* printed, the tables it wrote and what it did with the connection it
\* got from sqlite3.connect ("closed" once cnx.close() has run, "open"
\* when the stage ended without it, "none" when it opened none)
Ended(op, status, df) ==
    [op |-> op, status |-> status, exc |-> "", df |-> df, ret |-> EmptyTable,
     stdout |-> "", wrote |-> {}, cnx |-> "open"]

\* the stage ran to its last line, cnx.close()
Done(op, df, wrote) ==
    [Ended(op, "ok", df) EXCEPT !.wrote = wrote, !.cnx = "closed"]

Raised(op, df, exc, wrote) ==
    [Ended(op, "raised", df) EXCEPT !.exc = exc, !.wrote = wrote]

\* to_sql into a store that is created anew: the tables that were in it
\* are gone (the slip of writing to a fresh database file)
to_sql_NewStore(store, name, t) == [n \in {name} |-> t]

\* DataFrame.to_sql(name, cnx, if_exists='replace', index=False)
to_sql(store, name, t) ==
    [n \in (DOMAIN store) \cup {name} |-> IF n = name THEN t ELSE store[n]]

---------------------------------------------------------------------------
(* load_data_into_db *)

\* the tokens pandas.read_csv reads as a missing value
NaTokens == {"", "NA"}

\* the number a numeric token denotes
ToNumber == ("0" :> 0) @@ ("1" :> 1) @@ ("2" :> 2)

\* pandas.read_csv of one cell: a missing-value token is null (no entry),
\* a numeral is a number, anything else a string
ParseRow(raw, cols) ==
    [c \in {x \in cols : raw[x] \notin NaTokens} |->
        IF raw[c] \in DOMAIN ToNumber THEN ToNumber[raw[c]] ELSE raw[c]]

\* pd.read_csv(DATA_DIRECTORY, index_col=[0]): the first CSV column becomes
\* the index and is not a column of the frame
read_csv(f) ==
    LET cols == {f.header[k] : k \in 2..Len(f.header)}
    IN  Table(cols, [i \in 1..Len(f.rows) |-> ParseRow(f.rows[i], cols)])

\* lines 99-100: fillna(0) on the two counters, in a copy of the frame
\* with every column filled (the slip df.fillna(0))
FillCounters_AllColumns(df) ==
    Table(df.columns,
          [i \in RowIdx(df) |->
              [c \in df.columns |-> IF IsNull(df.rows[i], c) THEN 0 ELSE df.rows[i][c]]])

\* lines 99-100: fillna(0) on total_leads_droppped and on referred_lead
FillCounters(df) ==
    fillna(fillna(df, "total_leads_droppped", 0), "referred_lead", 0)

load_data_into_db ==
    LET df_lead_scoring == read_csv(csv_file)
    IN  /\ IF {"total_leads_droppped", "referred_lead"} \subseteq df_lead_scoring.columns
           THEN /\ db' = to_sql(db, "loaded_data", FillCounters(df_lead_scoring))
                /\ call' = Done("load_data_into_db", df_lead_scoring, {"loaded_data"})
           ELSE /\ db' = db
                /\ call' = Raised("load_data_into_db", df_lead_scoring, "KeyError", {})
        /\ UNCHANGED <<csv_file, config, monitor>>

---------------------------------------------------------------------------
(* map_city_tier *)

\* mapping/city_tier_mapping.py: city name -> tier
city_tier_mapping == ("Mumbai" :> 1) @@ ("Pune" :> 2)

\* Series.map(city_tier_mapping) of column city_mapped into column
\* city_tier: a city that is no key of the dict (or null) maps to null
MapCity(df) ==
    Table(df.columns \cup {"city_tier"},
          [i \in RowIdx(df) |->
              LET row == df.rows[i]
              IN  IF ~IsNull(row, "city_mapped")
                     /\ row["city_mapped"] \in DOMAIN city_tier_mapping
                  THEN SetCol(row, "city_tier", city_tier_mapping[row["city_mapped"]])
                  ELSE DelCol(row, "city_tier")])

\* lines 141-144 without the fillna(3.0) of line 143
CityTier_NoFill(df) == drop(MapCity(df), "city_mapped")

\* lines 141-144: map, fill the unmapped with tier 3.0, drop city_mapped
CityTier(df) == drop(fillna(MapCity(df), "city_tier", 3), "city_mapped")

map_city_tier ==
    /\ IF "loaded_data" \notin DOMAIN db
       THEN /\ db' = db
            /\ call' = Raised("map_city_tier", EmptyTable, "DatabaseError", {})
       ELSE LET df_lead_scoring == db["loaded_data"]
            IN  IF "city_mapped" \notin df_lead_scoring.columns
                THEN /\ db' = db
                     /\ call' = Raised("map_city_tier", df_lead_scoring, "KeyError", {})
                ELSE /\ db' = to_sql(db, "city_tier_mapped", CityTier(df_lead_scoring))
                     /\ call' = Done("map_city_tier", df_lead_scoring, {"city_tier_mapped"})
    /\ UNCHANGED <<csv_file, config, monitor>>

---------------------------------------------------------------------------
(* map_categorical_vars *)

\* Series.isin(levels): a null cell is in no list of levels
isin(row, c, levels) == ~IsNull(row, c) /\ row[c] \in levels

\* the rewritten rows only (the slip df = new_df)
concat_NewOnly(new_rows, old_rows) == new_rows

\* pd.concat([new_df, old_df]): the rows of new_df, then those of old_df
concat(new_rows, old_rows) == new_rows \o old_rows

\* one column's step with a null cell left as it is (the slip of testing
\* notnull() & ~isin())
collapse_KeepNull(df, c, levels) ==
    LET NotIn(row) == ~IsNull(row, c) /\ row[c] \notin levels
        In(row) == ~NotIn(row)
        new_df == SelectSeq(df.rows, NotIn)
        old_df == SelectSeq(df.rows, In)
    IN  Table(df.columns,
              concat([i \in 1..Len(new_df) |-> SetCol(new_df[i], c, "others")], old_df))

\* lines 192-199 (and 202-208, 211-217): the rows whose level is not in the
\* list get "others" and come first, the rows whose level is in it follow
collapse(df, c, levels) ==
    LET NotIn(row) == ~isin(row, c, levels)
        In(row) == isin(row, c, levels)
        new_df == SelectSeq(df.rows, NotIn)
        old_df == SelectSeq(df.rows, In)
    IN  Table(df.columns,
              concat([i \in 1..Len(new_df) |-> SetCol(new_df[i], c, "others")], old_df))

\* DataFrame.drop_duplicates(): of equal rows the first one stays
RECURSIVE drop_duplicates_rows(_)
drop_duplicates_rows(rs) ==
    IF rs = <<>> THEN <<>>
    ELSE LET n == Len(rs)
             front == drop_duplicates_rows(SubSeq(rs, 1, n - 1))
         IN  IF \E j \in 1..(n - 1) : rs[j] = rs[n] THEN front
             ELSE Append(front, rs[n])

drop_duplicates(df) == Table(df.columns, drop_duplicates_rows(df.rows))

\* lines 192-219 with the duplicates dropped from the frame as read, before
\* the three columns are rewritten
CategoricalVars_DedupFirst(df, lp, lm, ls) ==
    collapse(collapse(collapse(drop_duplicates(df), "first_platform_c", lp),
                      "first_utm_medium_c", lm),
             "first_utm_source_c", ls)

\* lines 192-219: platform, then medium, then source, then drop_duplicates
CategoricalVars(df, lp, lm, ls) ==
    drop_duplicates(
        collapse(collapse(collapse(df, "first_platform_c", lp),
                          "first_utm_medium_c", lm),
                 "first_utm_source_c", ls))

CategoricalColumns == {"first_platform_c", "first_utm_medium_c", "first_utm_source_c"}

map_categorical_vars ==
    /\ IF "city_tier_mapped" \notin DOMAIN db
       THEN /\ db' = db
            /\ call' = Raised("map_categorical_vars", EmptyTable, "DatabaseError", {})
       ELSE LET df_lead_scoring == db["city_tier_mapped"]
            IN  IF ~(CategoricalColumns \subseteq df_lead_scoring.columns)
                THEN /\ db' = db
                     /\ call' = Raised("map_categorical_vars", df_lead_scoring, "KeyError", {})
                ELSE /\ db' = to_sql(db, "categorical_variables_mapped",
                                     CategoricalVars(df_lead_scoring, list_platform,
                                                     list_medium, list_source))
                     /\ call' = Done("map_categorical_vars", df_lead_scoring, {"categorical_variables_mapped"})
    /\ UNCHANGED <<csv_file, config, monitor>>

---------------------------------------------------------------------------
(* interactions_mapping *)

INDEX_COLUMNS_TRAINING ==
    <<"created_date", "city_tier", "first_platform_c", "first_utm_medium_c",
      "first_utm_source_c", "total_leads_droppped", "referred_lead",
      "app_complete_flag">>

INDEX_COLUMNS_INFERENCE ==
    <<"created_date", "city_tier", "first_platform_c", "first_utm_medium_c",
      "first_utm_source_c", "total_leads_droppped", "referred_lead">>

NOT_FEATURES ==
    {"created_date", "assistance_interaction", "career_interaction",
     "payment_interaction", "social_interaction", "syllabus_interaction"}

Range(s) == {s[k] : k \in DOMAIN s}

\* the elements of a set, one after the other
RECURSIVE SetToSeq(_)
SetToSeq(S) ==
    IF S = {} THEN <<>>
    ELSE LET x == CHOOSE y \in S : TRUE IN <<x>> \o SetToSeq(S \ {x})

\* the concatenation of a sequence of sequences
RECURSIVE Flatten(_)
Flatten(ss) == IF ss = <<>> THEN <<>> ELSE Head(ss) \o Flatten(Tail(ss))

\* the row restricted to the columns of cols
Restrict(row, cols) == [c \in (DOMAIN row) \cap cols |-> row[c]]

\* pd.melt(df, id_vars, var_name='interaction_type',
\*         value_name='interaction_value'): one row per non-key column
\* and input row, the key cells replicated
melt(df, id_vars) ==
    LET value_vars == SetToSeq(df.columns \ id_vars)
        Long(c, row) ==
            LET keyed == SetCol(Restrict(row, id_vars), "interaction_type", c)
            IN  IF IsNull(row, c) THEN keyed
                ELSE SetCol(keyed, "interaction_value", row[c])
    IN  Table(id_vars \cup {"interaction_type", "interaction_value"},
              Flatten([k \in 1..Len(value_vars) |->
                          [i \in RowIdx(df) |-> Long(value_vars[k], df.rows[i])]]))

\* pd.merge(df_unpivot, df_event_mapping, on='interaction_type',
\*          how='left'): a row with no entry in the mapping table keeps a
\* null interaction_mapping
merge_left(df, mapping) ==
    LET Joined(row) ==
            LET Same(m) == m.interaction_type = row["interaction_type"]
                hits == SelectSeq(mapping, Same)
            IN  IF hits = <<>> THEN <<row>>
                ELSE [k \in 1..Len(hits) |->
                         SetCol(row, "interaction_mapping", hits[k].interaction_mapping)]
    IN  Table(df.columns \cup {"interaction_mapping"},
              Flatten([i \in RowIdx(df) |-> Joined(df.rows[i])]))

\* the order of the strings that occur as key values
StringOrder == <<"2021-07-01", "2021-07-02", "Level0", "Level9", "others">>

StringColumns ==
    {"created_date", "first_platform_c", "first_utm_medium_c", "first_utm_source_c"}

ValueLess(c, x, y) ==
    IF c \in StringColumns
    THEN \E i, j \in DOMAIN StringOrder :
             i < j /\ StringOrder[i] = x /\ StringOrder[j] = y
    ELSE x < y

\* the order of two index tuples: by the first index column they differ in
KeyLess(index, a, b) ==
    \E k \in DOMAIN index :
        /\ ValueLess(index[k], a[index[k]], b[index[k]])
        /\ \A j \in 1..(k - 1) : a[index[j]] = b[index[j]]

\* the index tuples in sorted order
RECURSIVE SortKeys(_, _)
SortKeys(index, K) ==
    IF K = {} THEN <<>>
    ELSE LET first == CHOOSE a \in K : \A b \in K \ {a} : KeyLess(index, a, b)
         IN  <<first>> \o SortKeys(index, K \ {first})

\* aggfunc='count' in the place of aggfunc='sum'
CountSeq(s) == Len(s)

\* aggfunc='sum'
RECURSIVE SumSeq(_)
SumSeq(s) == IF s = <<>> THEN 0 ELSE Head(s) + SumSeq(Tail(s))

\* the groups of DataFrame.groupby (dropna=True): a row with a null in a
\* group key is in no group
Grouped(df, keys) ==
    LET Keyed(row) == keys \subseteq DOMAIN row
    IN  SelectSeq(df.rows, Keyed)

\* df.pivot_table(values='interaction_value', index=index,
\*                columns='interaction_mapping', aggfunc='sum')
\* followed by reset_index()
pivot_table(df, index) ==
    LET ids == Range(index)
        rows == Grouped(df, ids \cup {"interaction_mapping"})
        keys == {Restrict(rows[i], ids) : i \in DOMAIN rows}
        cats == {rows[i]["interaction_mapping"] : i \in DOMAIN rows}
        Cell(key, cat) ==
            LET In(row) == Restrict(row, ids) = key /\ row["interaction_mapping"] = cat
                grp == SelectSeq(rows, In)
            IN  [has |-> grp # <<>>,
                 sum |-> SumSeq([k \in 1..Len(grp) |-> grp[k]["interaction_value"]])]
        Wide(key) ==
            [c \in (DOMAIN key) \cup {x \in cats : Cell(key, x).has} |->
                IF c \in DOMAIN key THEN key[c] ELSE Cell(key, c).sum]
        sorted == SortKeys(index, keys)
    IN  Table(ids \cup cats, [k \in 1..Len(sorted) |-> Wide(sorted[k])])

\* lines 265-278 with the inference key set whatever the columns are
InteractionsMapped_InferenceKeys(df, mapping) ==
    LET index_variable == INDEX_COLUMNS_INFERENCE
        df_unpivot == fillna(melt(df, Range(index_variable)), "interaction_value", 0)
        merged == drop(merge_left(df_unpivot, mapping), "interaction_type")
    IN  pivot_table(merged, index_variable)

\* lines 265-278
InteractionsMapped(df, mapping) ==
    LET index_variable == IF "app_complete_flag" \in df.columns
                          THEN INDEX_COLUMNS_TRAINING
                          ELSE INDEX_COLUMNS_INFERENCE
        df_unpivot == fillna(melt(df, Range(index_variable)), "interaction_value", 0)
        merged == drop(merge_left(df_unpivot, mapping), "interaction_type")
    IN  pivot_table(merged, index_variable)

\* DataFrame.drop(NOT_FEATURES, axis=1)
drop_all(t, cols) ==
    Table(t.columns \ cols, [i \in RowIdx(t) |-> Restrict(t.rows[i], t.columns \ cols)])

interactions_mapping ==
    /\ IF "categorical_variables_mapped" \notin DOMAIN db
       THEN /\ db' = db
            /\ call' = Raised("interactions_mapping", EmptyTable, "DatabaseError", {})
       ELSE LET df == db["categorical_variables_mapped"]
                index_variable == IF "app_complete_flag" \in df.columns
                                  THEN INDEX_COLUMNS_TRAINING
                                  ELSE INDEX_COLUMNS_INFERENCE
                df_pivot == InteractionsMapped(df, df_event_mapping)
            IN  IF ~(Range(index_variable) \subseteq df.columns)
                THEN /\ db' = db
                     /\ call' = Raised("interactions_mapping", df, "KeyError", {})
                ELSE IF ~(NOT_FEATURES \subseteq df_pivot.columns)
                THEN /\ db' = to_sql(db, "interactions_mapped", df_pivot)
                     /\ call' = Raised("interactions_mapping", df, "KeyError", {"interactions_mapped"})
                ELSE /\ db' = to_sql(to_sql(db, "interactions_mapped", df_pivot),
                                     "model_input", drop_all(df_pivot, NOT_FEATURES))
                     /\ call' = Done("interactions_mapping", df, {"interactions_mapped", "model_input"})
    /\ UNCHANGED <<csv_file, config, monitor>>

---------------------------------------------------------------------------
(* encode_features (training and inference) *)

\* pd.get_dummies(df[f]).add_prefix(f + '_'): one indicator column per
\* value that occurs in column f, named f_value; a null cell has no
\* indicator set
get_dummies(df, f) ==
    LET levels == {df.rows[i][f] : i \in {k \in RowIdx(df) : ~IsNull(df.rows[k], f)}}
        names == {f \o "_" \o v : v \in levels}
    IN  Table(names,
              [i \in RowIdx(df) |->
                  [c \in names |->
                      IF ~IsNull(df.rows[i], f) /\ c = f \o "_" \o df.rows[i][f]
                      THEN 1 ELSE 0]])

\* pd.concat([df_placeholder, encoded], axis=1)
concat_columns(left, right, n) ==
    Table(left.columns \cup right.columns,
          [i \in 1..n |->
              [c \in ((IF i \in RowIdx(left) THEN DOMAIN left.rows[i] ELSE {})
                      \cup DOMAIN right.rows[i]) |->
                  IF c \in DOMAIN right.rows[i] THEN right.rows[i][c] ELSE left.rows[i][c]]])

\* the first loop with a field that is no column of the frame skipped
\* (continue in the place of return)
RECURSIVE encode_loop_SkipMissing(_, _, _)
encode_loop_SkipMissing(df, features, df_placeholder) ==
    IF features = <<>> THEN [found |-> TRUE, df_placeholder |-> df_placeholder]
    ELSE IF Head(features) \in df.columns
    THEN encode_loop_SkipMissing(df, Tail(features),
                                 concat_columns(df_placeholder,
                                                get_dummies(df, Head(features)),
                                                Len(df.rows)))
    ELSE encode_loop_SkipMissing(df, Tail(features), df_placeholder)

\* the first loop: the encodings of the fields of 'features' side by side,
\* or found = FALSE at the first field that is no column of the frame
RECURSIVE encode_loop(_, _, _)
encode_loop(df, features, df_placeholder) ==
    IF features = <<>> THEN [found |-> TRUE, df_placeholder |-> df_placeholder]
    ELSE IF Head(features) \in df.columns
    THEN encode_loop(df, Tail(features),
                     concat_columns(df_placeholder, get_dummies(df, Head(features)),
                                    Len(df.rows)))
    ELSE [found |-> FALSE, df_placeholder |-> df_placeholder]

\* the second loop with every column of the encoding added to the frame,
\* declared or not
assemble_AllEncoded(df, df_placeholder, declared) ==
    LET cols == Range(declared) \cup df_placeholder.columns
    IN  Table(cols,
              [i \in RowIdx(df) |->
                  [c \in {x \in cols :
                             \/ x \in DOMAIN df_placeholder.rows[i]
                             \/ x \in DOMAIN df.rows[i]} |->
                      IF c \in DOMAIN df_placeholder.rows[i] THEN df_placeholder.rows[i][c]
                      ELSE df.rows[i][c]]])

\* the second loop: df_encoded starts with the declared columns and no row;
\* the first column assigned gives it the rows of the input; a declared
\* column is taken from the input if it is an input column and then from
\* the encoding if it is a column of the encoding; the rest stays null
assemble(df, df_placeholder, declared) ==
    LET assigned == Range(declared) \cap (df.columns \cup df_placeholder.columns)
    IN  IF assigned = {} THEN Table(Range(declared), <<>>)
        ELSE Table(Range(declared),
                   [i \in RowIdx(df) |->
                       [c \in {x \in Range(declared) :
                                  \/ x \in DOMAIN df_placeholder.rows[i]
                                  \/ x \in DOMAIN df.rows[i]} |->
                           IF c \in DOMAIN df_placeholder.rows[i]
                           THEN df_placeholder.rows[i][c]
                           ELSE df.rows[i][c]]])

\* DataFrame.fillna(0, inplace=True)
fillna_all(t, v) ==
    Table(t.columns,
          [i \in RowIdx(t) |->
              [c \in t.columns |-> IF IsNull(t.rows[i], c) THEN v ELSE t.rows[i][c]]])

\* df_encoded after the two loops and fillna(0)
Encoded(df, features, declared) ==
    fillna_all(assemble(df, encode_loop(df, features, EmptyTable).df_placeholder,
                        declared), 0)

\* df_encoded[['app_complete_flag']]
select_columns(t, cols) ==
    Table(cols, [i \in RowIdx(t) |-> Restrict(t.rows[i], cols)])

\* Lead_scoring_training_pipeline/utils.py
encode_features_training ==
    /\ IF "model_input" \notin DOMAIN db
       THEN /\ db' = db
            /\ call' = Raised("encode_features_training", EmptyTable, "DatabaseError", {})
       ELSE LET df_model_input == db["model_input"]
                df_encoded == Encoded(df_model_input, FEATURES_TO_ENCODE,
                                      ONE_HOT_ENCODED_FEATURES)
            IN  IF ~encode_loop(df_model_input, FEATURES_TO_ENCODE, EmptyTable).found
                THEN /\ db' = db
                     /\ call' = [Ended("encode_features_training", "returned", df_model_input)
                                    EXCEPT !.ret = df_model_input,
                                           !.stdout = "Feature not found"]
                ELSE IF "app_complete_flag" \notin df_encoded.columns
                THEN /\ db' = db
                     /\ call' = Raised("encode_features_training", df_model_input,
                                       "KeyError", {})
                ELSE /\ db' = to_sql(to_sql(db, "features",
                                            drop(df_encoded, "app_complete_flag")),
                                     "target",
                                     select_columns(df_encoded, {"app_complete_flag"}))
                     /\ call' = Done("encode_features_training", df_model_input,
                                     {"features", "target"})
    /\ UNCHANGED <<csv_file, config, monitor>>

\* Lead_scoring_inference_pipeline/utils.py
encode_features_inference ==
    /\ IF "model_input" \notin DOMAIN db
       THEN /\ db' = db
            /\ call' = Raised("encode_features_inference", EmptyTable, "DatabaseError", {})
       ELSE LET df_model_input == db["model_input"]
                df_encoded == Encoded(df_model_input, FEATURES_TO_ENCODE,
                                      ONE_HOT_ENCODED_FEATURES)
            IN  IF ~encode_loop(df_model_input, FEATURES_TO_ENCODE, EmptyTable).found
                THEN /\ db' = db
                     /\ call' = [Ended("encode_features_inference", "returned", df_model_input)
                                    EXCEPT !.ret = df_model_input,
                                           !.stdout = "Feature not found"]
                ELSE /\ db' = to_sql(db, "features_inference", df_encoded)
                     /\ call' = Done("encode_features_inference", df_model_input,
                                     {"features_inference"})
    /\ UNCHANGED <<csv_file, config, monitor>>

---------------------------------------------------------------------------
(* data_validation_checks *)

\* set(columns) == set(schema) weakened to: every declared column is there
schema_in_line_Subset(columns, schema) == Range(schema) \subseteq columns

\* set(df.columns) == set(schema)
schema_in_line(columns, schema) == columns = Range(schema)

raw_data_schema_check ==
    LET loaded_data == read_csv(csv_file)
        check == schema_in_line(loaded_data.columns, raw_data_schema)
    IN  /\ call' = [Ended("raw_data_schema_check", "ok", loaded_data) EXCEPT
                       !.cnx = "none",
                       !.stdout =
                       IF check
                       THEN "Raw datas schema is in line with the schema present in schema.py"
                       ELSE "Raw datas schema is NOT in line with the schema present in schema.py"]
        /\ UNCHANGED <<db, csv_file, config, monitor>>

model_input_schema_check ==
    /\ IF "model_input" \notin DOMAIN db
       THEN call' = Raised("model_input_schema_check", EmptyTable, "DatabaseError", {})
       ELSE LET df_model_input == db["model_input"]
                check == schema_in_line(df_model_input.columns, model_input_schema)
            IN  call' = [Ended("model_input_schema_check", "ok", df_model_input) EXCEPT !.stdout =
                            IF check
                            THEN "Models input schema is in line with the schema present in schema.py"
                            ELSE "Models input schema is NOT in line with the schema present in schema.py"]
    /\ UNCHANGED <<db, csv_file, config, monitor>>

---------------------------------------------------------------------------
(* get_models_prediction and prediction_ratio_check *)

\* the models the registry may hold in its Production stage: one that
\* predicts 0 for every row, one that predicts 1 for every row and one
\* that predicts by the feature first_platform_c_Level0
Models == {"always_0", "always_1", "by_platform"}

\* the features a model needs in the frame it is given
feature_name(model) ==
    IF model = "by_platform" THEN {"first_platform_c_Level0"} ELSE {}

\* loaded_model.predict on one row
predict(model, row) ==
    CASE model = "always_0" -> 0
      [] model = "always_1" -> 1
      [] OTHER -> IF row["first_platform_c_Level0"] = 1 THEN 1 ELSE 0

\* lines 120-121: the frame with the column of predictions added
WithPredictions(df, model) ==
    Table(df.columns \cup {"pred_app_complete_flag"},
          [i \in RowIdx(df) |->
              SetCol(df.rows[i], "pred_app_complete_flag", predict(model, df.rows[i]))])

get_models_prediction ==
    /\ IF loaded_model = "none"
       THEN /\ db' = db
            /\ call' = [Raised("get_models_prediction", EmptyTable, "MlflowException", {})
                           EXCEPT !.cnx = "none"]
       ELSE IF "features_inference" \notin DOMAIN db
       THEN /\ db' = db
            /\ call' = Raised("get_models_prediction", EmptyTable, "DatabaseError", {})
       ELSE LET df_new_data == db["features_inference"]
            IN  IF \E i \in RowIdx(df_new_data) :
                       ~(feature_name(loaded_model) \subseteq DOMAIN df_new_data.rows[i])
                THEN /\ db' = db
                     /\ call' = Raised("get_models_prediction", df_new_data, "ValueError", {})
                ELSE /\ db' = to_sql(db, "predicted_values",
                                     WithPredictions(df_new_data, loaded_model))
                     /\ call' = Done("get_models_prediction", df_new_data,
                                     {"predicted_values"})
    /\ UNCHANGED <<csv_file, config, monitor>>

\* the greatest common divisor of n and d (d > 0)
GCD(n, d) == CHOOSE g \in 1..d : /\ n % g = 0 /\ d % g = 0
                                 /\ \A h \in 1..d : (n % h = 0 /\ d % h = 0) => h <= g

\* the number n / d
Fraction(n, d) == [num |-> n \div GCD(n, d), den |-> d \div GCD(n, d)]

\* Series.value_counts(normalize=True): for every value that occurs in the
\* column, its share of the non-null cells
value_counts(df, c) ==
    LET present == {i \in RowIdx(df) : ~IsNull(df.rows[i], c)}
    IN  [v \in {df.rows[i][c] : i \in present} |->
            Fraction(Cardinality({i \in present : df.rows[i][c] = v}),
                     Cardinality(present))]

\* lines 164-168: the line the check appends
line(ct, shares) == [ct |-> ct, of_1 |-> shares[1], of_0 |-> shares[0]]

prediction_ratio_check ==
    /\ IF "predicted_values" \notin DOMAIN db
       THEN /\ call' = Raised("prediction_ratio_check", EmptyTable, "DatabaseError", {})
            /\ UNCHANGED monitor
       ELSE LET df == db["predicted_values"]
            IN  IF "pred_app_complete_flag" \notin df.columns
                THEN /\ call' = Raised("prediction_ratio_check", df, "KeyError", {})
                     /\ UNCHANGED monitor
                ELSE LET vc == value_counts(df, "pred_app_complete_flag")
                     IN  /\ clock < MaxClock
                         /\ clock' = clock + 1
                         /\ IF {0, 1} \subseteq DOMAIN vc
                            THEN /\ prediction_distribution' =
                                       Append(prediction_distribution, line(clock, vc))
                                 /\ call' = Ended("prediction_ratio_check", "ok", df)
                            ELSE /\ prediction_distribution' = prediction_distribution
                                 /\ call' = Raised("prediction_ratio_check", df, "KeyError", {})
    /\ UNCHANGED <<db, csv_file, config>>

---------------------------------------------------------------------------
(* The inputs: the CSV file, the tables found in the store, the settings *)

\* the CSV files: an index column, the two counters, the city
CsvRows ==
    [{"Unnamed: 0", "total_leads_droppped", "referred_lead", "city_mapped"} -> {"x"}]

CsvFiles ==
    {[header |-> <<"Unnamed: 0", "total_leads_droppped", "referred_lead", "city_mapped">>,
      rows |-> rs] : rs \in SeqUpTo(
         {[r EXCEPT !["total_leads_droppped"] = a, !["referred_lead"] = b,
                    !["city_mapped"] = c, !["Unnamed: 0"] = "0"] :
              r \in CsvRows, a \in {"NA", "2"}, b \in {"", "1"},
              c \in {"", "Mumbai"}}, MaxCsvRows)}
    \cup {[header |-> <<"Unnamed: 0", "total_leads_droppped", "city_mapped">>,
           rows |-> rs] :
          rs \in SeqUpTo({[c \in {"Unnamed: 0", "total_leads_droppped", "city_mapped"} |-> "1"]}, 1)}

\* the CSV file of the runs that start from a table found in the store
DefaultCsv ==
    [header |-> <<"Unnamed: 0", "total_leads_droppped", "city_mapped">>, rows |-> <<>>]

\* loaded_data tables for the city-tier mapper
LoadedDataDom ==
    [c \in {"city_mapped", "referred_lead"} |->
        IF c = "city_mapped" THEN {"Mumbai", "Pune", "mumbai", "Nowhere"} ELSE {0, 1}]

LoadedDataTables == TablesOver(LoadedDataDom, {"city_mapped"}, MaxCityRows)

\* the interaction mapping table: raw interaction column -> category
EventMapping ==
    <<[interaction_type |-> "career_assistance", interaction_mapping |-> "career_interaction"],
      [interaction_type |-> "career_coach", interaction_mapping |-> "career_interaction"],
      [interaction_type |-> "chat_clicked", interaction_mapping |-> "assistance_interaction"],
      [interaction_type |-> "payment_done", interaction_mapping |-> "payment_interaction"],
      [interaction_type |-> "whatsapp_chat_click", interaction_mapping |-> "social_interaction"],
      [interaction_type |-> "syllabus_button_clicked", interaction_mapping |-> "syllabus_interaction"]>>

NoCall == [Ended("none", "ok", EmptyTable) EXCEPT !.cnx = "none"]

\* schema.py
RawDataSchema == <<"total_leads_droppped", "referred_lead", "city_mapped">>

ModelInputSchema == <<"city_tier", "first_platform_c", "first_utm_medium_c">>

DefaultConfig ==
    /\ list_platform = {"Level0"}
    /\ list_medium = {"Level0"}
    /\ list_source = {"Level0"}
    /\ df_event_mapping = EventMapping
    /\ raw_data_schema = RawDataSchema
    /\ model_input_schema = ModelInputSchema
    /\ ONE_HOT_ENCODED_FEATURES =
          <<"city_tier", "app_complete_flag", "first_platform_c_Level0",
            "first_platform_c_Level3", "first_utm_medium_c_Level0">>
    /\ FEATURES_TO_ENCODE = <<"first_platform_c", "first_utm_medium_c">>
    /\ loaded_model = "by_platform"
    /\ prediction_distribution = <<>>

InitIngestion ==
    /\ csv_file \in CsvFiles
    /\ db = <<>>
    /\ DefaultConfig

InitCityTier ==
    /\ csv_file = DefaultCsv
    /\ db \in {to_sql(<<>>, "loaded_data", t) : t \in LoadedDataTables}
    /\ DefaultConfig

\* city_tier_mapped tables for the categorical collapser, and the lists of
\* significant levels with and without the level "others"
CityTierMappedDom ==
    [c \in CategoricalColumns \cup {"city_tier"} |->
        CASE c = "first_platform_c" -> {"Level0", "Level9"}
          [] c = "city_tier" -> {3}
          [] OTHER -> {"Level0"}]

CityTierMappedTables == TablesOver(CityTierMappedDom, CategoricalColumns, MaxLevelRows)

SignificantLevels == {{"Level0"}, {"Level0", "others"}}

\* the three lists: "others" in none of them, in the platform list only,
\* in the medium and source lists only, in all of them
LevelLists ==
    {L \in SignificantLevels \X SignificantLevels \X SignificantLevels : L[2] = L[3]}

InitCategorical ==
    /\ csv_file = DefaultCsv
    /\ db \in {to_sql(<<>>, "city_tier_mapped", t) : t \in CityTierMappedTables}
    /\ \E L \in LevelLists :
          /\ list_platform = L[1]
          /\ list_medium = L[2]
          /\ list_source = L[3]
    /\ df_event_mapping = EventMapping
    /\ raw_data_schema = RawDataSchema
    /\ model_input_schema = ModelInputSchema
    /\ ONE_HOT_ENCODED_FEATURES =
          <<"city_tier", "app_complete_flag", "first_platform_c_Level0",
            "first_platform_c_Level3", "first_utm_medium_c_Level0">>
    /\ FEATURES_TO_ENCODE = <<"first_platform_c", "first_utm_medium_c">>
    /\ loaded_model = "by_platform"
    /\ prediction_distribution = <<>>

\* categorical_variables_mapped tables for the interaction reshaper: the
\* identity key (created_date may be null), with or without the label, and
\* (a) two columns of one category and a column with no mapping entry,
\* (b) a column of every category, (c) only a column with no mapping entry
LeadKeyDom(label) ==
    [c \in Range(IF label THEN INDEX_COLUMNS_TRAINING ELSE INDEX_COLUMNS_INFERENCE) |->
        CASE c = "created_date" -> {"2021-07-01", "2021-07-02"}
          [] c \in {"first_platform_c", "first_utm_medium_c", "first_utm_source_c"} -> {"Level0"}
          [] c = "city_tier" -> {1}
          [] OTHER -> {0}]

TwoCareerDom ==
    [c \in {"career_assistance", "career_coach", "landing_page_visit"} |->
        CASE c = "career_assistance" -> {1}
          [] c = "career_coach" -> {2}
          [] OTHER -> {1}]

EveryCategoryDom ==
    [c \in {"career_assistance", "chat_clicked", "payment_done",
            "whatsapp_chat_click", "syllabus_button_clicked"} |-> {1}]

UnmappedOnlyDom == [c \in {"landing_page_visit"} |-> {1}]

LeadTables ==
    UNION {TablesOver(LeadKeyDom(label) @@ TwoCareerDom,
                      {"created_date", "career_assistance"}, MaxLeadRows)
           \cup TablesOver(LeadKeyDom(label) @@ EveryCategoryDom,
                           {"created_date"}, MaxLeadRows)
           \cup TablesOver(LeadKeyDom(label) @@ UnmappedOnlyDom,
                           {"created_date"}, MaxLeadRows)
           : label \in BOOLEAN}

InitInteractions ==
    /\ csv_file = DefaultCsv
    /\ db \in {to_sql(<<>>, "categorical_variables_mapped", t) : t \in LeadTables}
    /\ DefaultConfig

\* model_input tables for the encoders: any of the columns below, with an
\* undeclared level (Level9), null cells, and an input column that bears
\* the name of a one-hot column
ModelInputDom ==
    [c \in {"city_tier", "app_complete_flag", "first_platform_c",
            "first_utm_medium_c", "first_platform_c_Level0"} |->
        CASE c = "first_platform_c" -> {"Level0", "Level9"}
          [] c = "first_utm_medium_c" -> {"Level0"}
          [] c = "city_tier" -> {2}
          [] c = "app_complete_flag" -> {1}
          [] OTHER -> {7}]

ModelInputColumns ==
    {{}, {"first_platform_c"}, {"first_utm_medium_c"},
     {"first_platform_c", "first_utm_medium_c"},
     {"first_platform_c", "first_utm_medium_c", "city_tier", "app_complete_flag"},
     {"first_platform_c", "first_utm_medium_c", "first_platform_c_Level0"},
     {"city_tier", "app_complete_flag"}}

ModelInputTables ==
    UNION {TablesOver([c \in C |-> ModelInputDom[c]],
                      C \cap {"city_tier", "first_utm_medium_c"}, MaxInputRows)
           : C \in ModelInputColumns}

\* what an earlier run may have left in the encoders' output tables
StaleTable == Table({"city_tier"}, <<[city_tier |-> 9]>>)

EncoderStores ==
    {to_sql(to_sql(to_sql(to_sql(<<>>, "model_input", t), "features", StaleTable),
                   "target", StaleTable), "features_inference", StaleTable)
     : t \in ModelInputTables}

FeaturesToEncode == <<"first_platform_c", "first_utm_medium_c">>

OneHotEncodedFeatures ==
    {<<"city_tier", "app_complete_flag", "first_platform_c_Level0",
       "first_platform_c_Level3", "first_utm_medium_c_Level0">>,
     <<"city_tier", "first_platform_c_Level0",
       "first_platform_c_Level3", "first_utm_medium_c_Level0">>}

InitEncoder ==
    /\ csv_file = DefaultCsv
    /\ db \in EncoderStores
    /\ list_platform = {"Level0"}
    /\ list_medium = {"Level0"}
    /\ list_source = {"Level0"}
    /\ df_event_mapping = EventMapping
    /\ raw_data_schema = RawDataSchema
    /\ model_input_schema = ModelInputSchema
    /\ ONE_HOT_ENCODED_FEATURES \in OneHotEncodedFeatures
    /\ FEATURES_TO_ENCODE = FeaturesToEncode
    /\ loaded_model = "none"
    /\ prediction_distribution = <<>>

\* the declared schemas in another order, with a duplicate, with a column
\* missing and with a column added
RawDataSchemas ==
    {<<"city_mapped", "total_leads_droppped", "referred_lead", "city_mapped">>,
     <<"total_leads_droppped", "city_mapped">>,
     <<"total_leads_droppped", "referred_lead", "city_mapped", "created_date">>}

ModelInputSchemas ==
    {<<"first_utm_medium_c", "first_platform_c", "first_platform_c">>,
     <<"first_platform_c">>,
     <<"first_platform_c", "first_utm_medium_c", "city_tier">>}

InitSchemaChecks ==
    /\ csv_file \in {f \in CsvFiles : Len(f.rows) = 0}
    /\ db \in {to_sql(<<>>, "model_input", t) :
                  t \in {m \in ModelInputTables :
                            /\ Len(m.rows) = 0
                            /\ m.columns \subseteq {"city_tier", "first_platform_c",
                                                    "first_utm_medium_c",
                                                    "app_complete_flag"}}}
    /\ list_platform = {"Level0"}
    /\ list_medium = {"Level0"}
    /\ list_source = {"Level0"}
    /\ df_event_mapping = EventMapping
    /\ raw_data_schema \in RawDataSchemas
    /\ model_input_schema \in ModelInputSchemas
    /\ ONE_HOT_ENCODED_FEATURES \in {d \in OneHotEncodedFeatures : Len(d) = 5}
    /\ FEATURES_TO_ENCODE = FeaturesToEncode
    /\ loaded_model = "by_platform"
    /\ prediction_distribution = <<>>

\* predicted_values tables for the monitoring check: predictions of one
\* class and of both, with a log that is empty or holds the line of an
\* earlier run, and a registry with any of the models or with none
PredictedValuesTables ==
    TablesOver([c \in {"pred_app_complete_flag"} |-> {0, 1}], {}, MaxPredRows)

\* features_inference tables for the prediction stage, beside a
\* model_input table: with the feature the model predicts by, and without
FeaturesInferenceTables ==
    TablesOver([c \in {"first_platform_c_Level0", "city_tier"} |->
                   IF c = "city_tier" THEN {2} ELSE {0, 1}], {}, MaxPredRows)
    \cup {StaleTable}

MonitoringStores ==
    {to_sql(<<>>, "predicted_values", t) : t \in PredictedValuesTables}
    \cup {to_sql(to_sql(<<>>, "model_input", StaleTable), "features_inference", t)
           : t \in FeaturesInferenceTables}

EarlierLine == [ct |-> -1, of_1 |-> Fraction(1, 4), of_0 |-> Fraction(3, 4)]

InitMonitoring ==
    /\ csv_file = DefaultCsv
    /\ db \in MonitoringStores
    /\ list_platform = {"Level0"}
    /\ list_medium = {"Level0"}
    /\ list_source = {"Level0"}
    /\ df_event_mapping = EventMapping
    /\ raw_data_schema = RawDataSchema
    /\ model_input_schema = ModelInputSchema
    /\ ONE_HOT_ENCODED_FEATURES \in {d \in OneHotEncodedFeatures : Len(d) = 5}
    /\ FEATURES_TO_ENCODE = FeaturesToEncode
    /\ loaded_model \in Models \cup {"none"}
    /\ prediction_distribution \in {<<>>, <<EarlierLine>>}

Init ==
    /\ call = NoCall
    /\ clock = 0
    /\ \/ InitIngestion
       \/ InitCityTier
       \/ InitCategorical
       \/ InitInteractions
       \/ InitEncoder
       \/ InitSchemaChecks
       \/ InitMonitoring

Next ==
    \/ load_data_into_db
    \/ map_city_tier
    \/ map_categorical_vars
    \/ interactions_mapping
    \/ encode_features_training
    \/ encode_features_inference
    \/ raw_data_schema_check
    \/ model_input_schema_check
    \/ get_models_prediction
    \/ prediction_ratio_check

Spec == Init /\ [][Next]_vars

---------------------------------------------------------------------------
(* Properties *)

Ran(op) == call.op = op /\ call.status = "ok"

\* C1: after map_city_tier, city_tier_mapped has one row per row of
\* loaded_data; its city_tier is city_tier_mapping[city_mapped] when
\* city_mapped is a key of the map (exact match) and 3.0 for every other
\* value, null included; the table has no city_mapped column.
C1_CityTier ==
    Ran("map_city_tier") =>
        LET in == call.df
            out == db["city_tier_mapped"]
        IN  /\ "city_mapped" \notin out.columns
            /\ "city_tier" \in out.columns
            /\ Len(out.rows) = Len(in.rows)
            /\ \A i \in RowIdx(in) :
                  /\ "city_mapped" \notin DOMAIN out.rows[i]
                  /\ "city_tier" \in DOMAIN out.rows[i]
                  /\ out.rows[i]["city_tier"] =
                        IF "city_mapped" \in DOMAIN in.rows[i]
                           /\ in.rows[i]["city_mapped"] \in {"Mumbai", "Pune"}
                        THEN city_tier_mapping[in.rows[i]["city_mapped"]]
                        ELSE 3

\* a mapped city, a null city and a city that differs from a key by case
\* only have been mapped
C1_Witness ==
    /\ Ran("map_city_tier")
    /\ Len(call.df.rows) = 2
    /\ "city_mapped" \notin DOMAIN call.df.rows[1]
    /\ db["city_tier_mapped"].rows[1]["city_tier"] = 3
    /\ "city_mapped" \in DOMAIN call.df.rows[2]
    /\ call.df.rows[2]["city_mapped"] \in {"Pune", "mumbai"}

\* C2: every row written by map_categorical_vars has, in each of the three
\* columns, a level of that column's list or "others"; no null survives.
C2_OnlyListedOrOthers ==
    Ran("map_categorical_vars") =>
        \A i \in RowIdx(db["categorical_variables_mapped"]) :
            LET row == db["categorical_variables_mapped"].rows[i]
            IN  /\ CategoricalColumns \subseteq DOMAIN row
                /\ row["first_platform_c"] \in list_platform \cup {"others"}
                /\ row["first_utm_medium_c"] \in list_medium \cup {"others"}
                /\ row["first_utm_source_c"] \in list_source \cup {"others"}

\* a row with a null platform and a null medium and a row with an unlisted
\* platform have been collapsed
C2_Witness ==
    /\ Ran("map_categorical_vars")
    /\ \E i \in RowIdx(call.df) :
          /\ "first_platform_c" \notin DOMAIN call.df.rows[i]
          /\ "first_utm_medium_c" \notin DOMAIN call.df.rows[i]
    /\ \E i \in RowIdx(call.df) :
          /\ "first_platform_c" \in DOMAIN call.df.rows[i]
          /\ call.df.rows[i]["first_platform_c"] = "Level9"

Again(t) == CategoricalVars(t, list_platform, list_medium, list_source)

RowSet(t) == {t.rows[i] : i \in RowIdx(t)}

\* C3 as stated: the collapser applied to its own output yields the same
\* table, row order included, whatever the lists are.
C3_SameTableAnyLists ==
    Ran("map_categorical_vars") =>
        Again(db["categorical_variables_mapped"]) = db["categorical_variables_mapped"]

\* "others" is in the list of a column only if it is in the lists of the
\* columns processed before it
OthersNested ==
    /\ "others" \in list_source => "others" \in list_medium
    /\ "others" \in list_medium => "others" \in list_platform

\* C3 amended: the collapser applied to its own output yields the same rows
\* with the same values, whatever the lists are; the row order is the same
\* too when "others" is in the list of a column only if it is in the lists
\* of the columns processed before it.
C3_Idempotent ==
    Ran("map_categorical_vars") =>
        LET out == db["categorical_variables_mapped"]
        IN  /\ Again(out).columns = out.columns
            /\ RowSet(Again(out)) = RowSet(out)
            /\ Len(Again(out).rows) = Len(out.rows)
            /\ OthersNested => Again(out) = out

\* two rows that differ before the step were collapsed to one row, with
\* "others" in the list of the last column only
C3_Witness ==
    /\ Ran("map_categorical_vars")
    /\ Len(call.df.rows) = 2
    /\ Len(db["categorical_variables_mapped"].rows) = 1
    /\ call.df.rows[1] # call.df.rows[2]
    /\ "others" \in list_platform
    /\ "others" \notin list_medium

\* the stage that ran last wrote table t (it may have raised afterwards)
Wrote(op, t) == call.op = op /\ t \in call.wrote

\* the identity-key columns interactions_mapping selects for the frame
IdentityKey(df) ==
    Range(IF "app_complete_flag" \in df.columns
          THEN INDEX_COLUMNS_TRAINING ELSE INDEX_COLUMNS_INFERENCE)

\* the mapping table assigns the raw column col to the category cat
Assigns(col, cat) ==
    \E k \in DOMAIN df_event_mapping :
        /\ df_event_mapping[k].interaction_type = col
        /\ df_event_mapping[k].interaction_mapping = cat

\* the sum of f over S
RECURSIVE Total(_, _)
Total(f, S) ==
    IF S = {} THEN 0
    ELSE LET x == CHOOSE y \in S : TRUE IN f[x] + Total(f, S \ {x})

\* C4: interactions_mapped has as many rows as there are distinct
\* identity-key tuples in categorical_variables_mapped, tuples with a null
\* key value and tables without a mapped column included.
C4_RowPerKeyTuple ==
    Wrote("interactions_mapping", "interactions_mapped") =>
        Len(db["interactions_mapped"].rows) =
            Cardinality({Restrict(call.df.rows[i], IdentityKey(call.df)) :
                             i \in RowIdx(call.df)})

\* C5: in every row of interactions_mapped every category column holds the
\* sum, over the input rows with the row's identity-key tuple and the raw
\* columns the mapping table assigns to the category, of the raw cells
\* (null as 0); a column without a mapping entry adds to no category.
C5_CategorySums ==
    Wrote("interactions_mapping", "interactions_mapped") =>
        LET in == call.df
            out == db["interactions_mapped"]
            ids == IdentityKey(in)
            raw == [pr \in RowIdx(in) \X (in.columns \ ids) |->
                       IF pr[2] \in DOMAIN in.rows[pr[1]] THEN in.rows[pr[1]][pr[2]] ELSE 0]
        IN  /\ \A c \in out.columns \ ids : \E col \in in.columns \ ids : Assigns(col, c)
            /\ \A k \in RowIdx(out) : \A c \in out.columns \ ids :
                  /\ c \in DOMAIN out.rows[k]
                  /\ out.rows[k][c] =
                        Total(raw, {pr \in DOMAIN raw :
                                       /\ Restrict(in.rows[pr[1]], ids) = Restrict(out.rows[k], ids)
                                       /\ Assigns(pr[2], c)})

\* two input rows with one identity-key tuple, one of them with a null
\* cell, two raw columns of one category and an unmapped column were summed
C5_Witness ==
    /\ Wrote("interactions_mapping", "interactions_mapped")
    /\ Len(call.df.rows) = 2
    /\ Len(db["interactions_mapped"].rows) = 1
    /\ {"career_assistance", "career_coach", "landing_page_visit"} \subseteq call.df.columns
    /\ "career_assistance" \notin DOMAIN call.df.rows[1]
    /\ "career_assistance" \in DOMAIN call.df.rows[2]
    /\ db["interactions_mapped"].rows[1]["career_interaction"] = 5

EncodeOps == {"encode_features_training", "encode_features_inference"}

\* the encoding of the frame 'in' produces the one-hot column c
Produced(in, c) ==
    \E f \in Range(FEATURES_TO_ENCODE) : \E i \in RowIdx(in) :
        f \in DOMAIN in.rows[i] /\ c = f \o "_" \o in.rows[i][f]

\* features and target side by side: the frame the training encoder split
Unsplit(features, target) ==
    Table(features.columns \cup target.columns,
          [i \in RowIdx(features) |->
              [c \in DOMAIN features.rows[i] \cup
                     (IF i \in RowIdx(target) THEN DOMAIN target.rows[i] ELSE {}) |->
                  IF c \in DOMAIN features.rows[i] THEN features.rows[i][c]
                  ELSE target.rows[i][c]]])

ExactlyDeclared(in, t) ==
    /\ t.columns = Range(ONE_HOT_ENCODED_FEATURES)
    /\ \A i \in RowIdx(t) : DOMAIN t.rows[i] = t.columns
    /\ \A c \in Range(ONE_HOT_ENCODED_FEATURES) :
          (c \notin in.columns /\ ~Produced(in, c)) =>
              \A i \in RowIdx(t) : t.rows[i][c] = 0

\* C6: when every field of FEATURES_TO_ENCODE is a column of model_input,
\* the encoded table has exactly the columns of ONE_HOT_ENCODED_FEATURES
\* whatever levels occur, a declared column that is neither an input
\* column nor a produced one-hot column is 0 in every row, and no cell is
\* null.
C6_ExactlyDeclaredColumns ==
    (/\ call.op \in EncodeOps
     /\ call.exc # "DatabaseError"
     /\ Range(FEATURES_TO_ENCODE) \subseteq call.df.columns) =>
        /\ call.op = "encode_features_inference" =>
              /\ call.status = "ok"
              /\ ExactlyDeclared(call.df, db["features_inference"])
        /\ (call.op = "encode_features_training" /\ call.status = "ok") =>
              ExactlyDeclared(call.df, Unsplit(db["features"], db["target"]))

\* a batch with an undeclared level (Level9) and without the declared level
\* Level3 was encoded: the Level9 column is gone, the Level3 column is 0
C6_Witness ==
    /\ call.op = "encode_features_inference"
    /\ call.status = "ok"
    /\ Len(db["features_inference"].rows) = 2
    /\ \E i \in RowIdx(call.df) :
          /\ "first_platform_c" \in DOMAIN call.df.rows[i]
          /\ call.df.rows[i]["first_platform_c"] = "Level9"
    /\ \E i \in RowIdx(call.df) : "city_tier" \notin DOMAIN call.df.rows[i]
    /\ db["features_inference"].rows[1]["first_platform_c_Level3"] = 0

\* C8: when a field of FEATURES_TO_ENCODE is no column of model_input,
\* encode_features raises nothing, returns the model_input frame as read
\* and leaves every table of the store as it was.
C8_MissingFieldReturnsInput ==
    [][(/\ call'.op \in EncodeOps
        /\ "model_input" \in DOMAIN db
        /\ ~(Range(FEATURES_TO_ENCODE) \subseteq db["model_input"].columns)) =>
           /\ call'.status = "returned"
           /\ call'.exc = ""
           /\ call'.ret = db["model_input"]
           /\ call'.wrote = {}
           /\ db' = db]_vars

\* the encoder returned early at the second field, after it had encoded
\* the first, with output tables of an earlier run in the store
C8_Witness ==
    /\ call.op \in EncodeOps
    /\ call.status = "returned"
    /\ "first_platform_c" \in call.df.columns
    /\ "first_utm_medium_c" \notin call.df.columns
    /\ Len(call.df.rows) > 0
    /\ "features" \in DOMAIN db
    /\ db["features"] = StaleTable

InLineRaw == "Raw datas schema is in line with the schema present in schema.py"
NotInLineRaw == "Raw datas schema is NOT in line with the schema present in schema.py"
InLineModel == "Models input schema is in line with the schema present in schema.py"
NotInLineModel == "Models input schema is NOT in line with the schema present in schema.py"

\* the declared column names are exactly the names in 'columns'
SameNames(columns, schema) ==
    /\ \A k \in DOMAIN schema : schema[k] \in columns
    /\ \A c \in columns : \E k \in DOMAIN schema : schema[k] = c

C10_SplitRowForRow ==
    [][/\ (call'.op = "encode_features_training" /\ call'.status = "ok") =>
             LET in == db["model_input"]
                 features == db'["features"]
                 target == db'["target"]
             IN  /\ features.columns = Range(ONE_HOT_ENCODED_FEATURES) \ {"app_complete_flag"}
                 /\ target.columns = {"app_complete_flag"}
                 /\ Len(features.rows) = Len(in.rows)
                 /\ Len(target.rows) = Len(in.rows)
                 /\ \A i \in RowIdx(in) : \A c \in Range(ONE_HOT_ENCODED_FEATURES) :
                       LET cell == IF c = "app_complete_flag" THEN target.rows[i][c]
                                   ELSE features.rows[i][c]
                       IN  cell = IF Produced(in, c)
                                  THEN IF \E f \in Range(FEATURES_TO_ENCODE) :
                                             /\ f \in DOMAIN in.rows[i]
                                             /\ c = f \o "_" \o in.rows[i][f]
                                       THEN 1 ELSE 0
                                  ELSE IF c \in DOMAIN in.rows[i] THEN in.rows[i][c]
                                  ELSE 0
       /\ call'.op = "encode_features_inference" =>
             /\ call'.wrote \subseteq {"features_inference"}
             /\ \A t \in {"features", "target"} :
                   /\ t \in DOMAIN db' <=> t \in DOMAIN db
                   /\ t \in DOMAIN db => db'[t] = db[t]]_vars

\* C7: loaded_data has one row per CSV row; a null of total_leads_droppped
\* or of referred_lead is 0, every other cell is the value read from the
\* CSV (a null stays null).
C7_Loaded ==
    Ran("load_data_into_db") =>
        LET out == db["loaded_data"]
        IN  /\ Len(out.rows) = Len(csv_file.rows)
            /\ out.columns = {csv_file.header[k] : k \in 2..Len(csv_file.header)}
            /\ \A i \in RowIdx(out) : \A c \in out.columns :
                  LET tok == csv_file.rows[i][c]
                  IN  IF tok \in {"", "NA"}
                      THEN IF c \in {"total_leads_droppped", "referred_lead"}
                           THEN c \in DOMAIN out.rows[i] /\ out.rows[i][c] = 0
                           ELSE c \notin DOMAIN out.rows[i]
                      ELSE /\ c \in DOMAIN out.rows[i]
                           /\ out.rows[i][c] = IF tok \in DOMAIN ToNumber
                                               THEN ToNumber[tok] ELSE tok

\* a row with a null counter, a non-null counter and a null city was loaded
C7_Witness ==
    /\ Ran("load_data_into_db")
    /\ \E i \in RowIdx(db["loaded_data"]) :
          /\ csv_file.rows[i]["total_leads_droppped"] = "NA"
          /\ csv_file.rows[i]["referred_lead"] = "1"
          /\ csv_file.rows[i]["city_mapped"] = ""
          /\ db["loaded_data"].rows[i]["total_leads_droppped"] = 0


\* C11: a stage that raises leaves the store as it found it: none of its
\* output tables has been created or replaced (interactions_mapping raising
\* while it drops NOT_FEATURES and the training encoder raising before it
\* writes target included).
C11_FailureLeavesStore == [][call'.status = "raised" => db' = db]_vars

\* C12: every stage that opens a connection to the store has closed it
\* when it ends, whether it returns, returns early or raises.
C12_ConnectionsClosed == call.cnx # "open"

\* C14: interactions_mapping on a table that has every identity-key column
\* of the selected key set completes and writes interactions_mapped and
\* model_input, whatever other columns the table has and whichever
\* categories the mapping table gives them.
C14_FailsOnlyWithoutKey ==
    (/\ call.op = "interactions_mapping"
     /\ call.exc # "DatabaseError"
     /\ IdentityKey(call.df) \subseteq call.df.columns) =>
        /\ call.status = "ok"
        /\ call.wrote = {"interactions_mapped", "model_input"}


\* the tables a stage writes
Outputs(op) ==
    CASE op = "load_data_into_db" -> {"loaded_data"}
      [] op = "map_city_tier" -> {"city_tier_mapped"}
      [] op = "map_categorical_vars" -> {"categorical_variables_mapped"}
      [] op = "interactions_mapping" -> {"interactions_mapped", "model_input"}
      [] op = "encode_features_training" -> {"features", "target"}
      [] op = "encode_features_inference" -> {"features_inference"}
      [] op = "get_models_prediction" -> {"predicted_values"}
      [] OTHER -> {}

C15_InputWins ==
    (call.op \in EncodeOps /\ call.status = "ok") =>
        LET in == call.df
            out == IF call.op = "encode_features_inference"
                   THEN db["features_inference"]
                   ELSE Unsplit(db["features"], db["target"])
        IN  \A c \in Range(ONE_HOT_ENCODED_FEATURES) \cap in.columns :
                Produced(in, c) =>
                    \A i \in RowIdx(in) :
                        out.rows[i][c] = IF c \in DOMAIN in.rows[i] THEN in.rows[i][c] ELSE 0

\* the list of significant levels of a column
ListOf(c) ==
    CASE c = "first_platform_c" -> list_platform
      [] c = "first_utm_medium_c" -> list_medium
      [] OTHER -> list_source

\* the row with each of the three columns rewritten to "others" when its
\* own value is not in its own list
RowMap(row) ==
    [c \in (DOMAIN row) \cup CategoricalColumns |->
        IF c \in CategoricalColumns /\ ~(c \in DOMAIN row /\ row[c] \in ListOf(c))
        THEN "others" ELSE row[c]]

\* C16: the rows map_categorical_vars writes are the images of the input
\* rows under the row map that rewrites each of the three columns by its
\* own value and its own list and leaves the other columns as they are;
\* no two rows written are equal.
C16_RowImages ==
    Ran("map_categorical_vars") =>
        LET out == db["categorical_variables_mapped"]
        IN  /\ out.columns = call.df.columns
            /\ RowSet(out) = {RowMap(call.df.rows[i]) : i \in RowIdx(call.df)}
            /\ \A i, j \in RowIdx(out) : i # j => out.rows[i] # out.rows[j]

\* two rows with an unlisted platform, one with a listed medium and one
\* with a null medium, were written as two rows that differ in the medium
\* only, and a table of two equal rows as one row
C16_Witness ==
    /\ Ran("map_categorical_vars")
    /\ Len(call.df.rows) = 2
    /\ \A i \in {1, 2} :
          /\ "first_platform_c" \in DOMAIN call.df.rows[i]
          /\ call.df.rows[i]["first_platform_c"] = "Level9"
          /\ call.df.rows[i]["city_tier"] = 3
    /\ "first_utm_medium_c" \notin DOMAIN call.df.rows[1]
    /\ "first_utm_medium_c" \in DOMAIN call.df.rows[2]
    /\ "others" \notin list_medium
    /\ Len(db["categorical_variables_mapped"].rows) = 2
    /\ \A k \in {1, 2} :
          db["categorical_variables_mapped"].rows[k]["first_platform_c"] = "others"

\* C17: interactions_mapped and model_input have an app_complete_flag
\* column exactly when categorical_variables_mapped has one, and then it
\* is a key of the grouping: every row written carries the label of an
\* input row with the same identity key, never a sum of labels.
C17_LabelIsKey ==
    Wrote("interactions_mapping", "interactions_mapped") =>
        LET in == call.df
            out == db["interactions_mapped"]
            labelled == "app_complete_flag" \in in.columns
        IN  /\ ("app_complete_flag" \in out.columns) <=> labelled
            /\ "model_input" \in call.wrote =>
                  /\ ("app_complete_flag" \in db["model_input"].columns) <=> labelled
                  /\ Len(db["model_input"].rows) = Len(out.rows)
            /\ labelled =>
                  \A k \in RowIdx(out) :
                      /\ "app_complete_flag" \in DOMAIN out.rows[k]
                      /\ \E i \in RowIdx(in) :
                            Restrict(in.rows[i], Range(INDEX_COLUMNS_TRAINING)) =
                                Restrict(out.rows[k], Range(INDEX_COLUMNS_TRAINING))
                      /\ \A j \in RowIdx(out) :
                            Restrict(out.rows[j], Range(INDEX_COLUMNS_TRAINING)) =
                                Restrict(out.rows[k], Range(INDEX_COLUMNS_TRAINING)) => j = k

\* a labelled table of two leads was reshaped and both tables written,
\* each with the label column
C17_Witness ==
    /\ Ran("interactions_mapping")
    /\ "app_complete_flag" \in call.df.columns
    /\ Len(call.df.rows) = 2
    /\ Len(db["model_input"].rows) = 2
    /\ \A k \in {1, 2} : db["model_input"].rows[k]["app_complete_flag"] = 0

\* the share of the value v among the predictions of the table, as
\* num / den
IsShare(f, t, v) ==
    f.num * Len(t.rows) =
        f.den * Cardinality({i \in RowIdx(t) :
                                /\ "pred_app_complete_flag" \in DOMAIN t.rows[i]
                                /\ t.rows[i]["pred_app_complete_flag"] = v})

\* C18: every run of prediction_ratio_check on a non-empty predicted_values
\* table, one with predictions of a single class included, appends one
\* line with the share of 1-predictions and the share of 0-predictions to
\* the log and leaves the lines before it as they are.
C18_LogsEveryRun ==
    [][(/\ call'.op = "prediction_ratio_check"
        /\ "predicted_values" \in DOMAIN db
        /\ db["predicted_values"].rows # <<>>) =>
           /\ Len(prediction_distribution') = Len(prediction_distribution) + 1
           /\ SubSeq(prediction_distribution', 1, Len(prediction_distribution)) =
                 prediction_distribution
           /\ IsShare(prediction_distribution'[Len(prediction_distribution')].of_1,
                      db["predicted_values"], 1)
           /\ IsShare(prediction_distribution'[Len(prediction_distribution')].of_0,
                      db["predicted_values"], 0)]_vars

=============================================================================
